---- MODULE Spec2Model ----
(***************************************************************************)
(* Checkpoint / partition / resume bookkeeping of the SeoulDoc scrapers.   *)
(*                                                                         *)
(* The repository is a set of independent programs, so the module holds    *)
(* one specification per program:                                          *)
(*   SpecPartition   - partition selection and checkpoint file naming      *)
(*   SpecScrape      - one checkpointed run of a scraping loop             *)
(*   SpecMerge       - merging worker / partition JSON files               *)
(*   SpecCoordinator - the job coordinators and their ParallelWorkers      *)
(*   SpecBatch       - seoul_batch_scraper runs and their progress file    *)
(*   SpecUpload      - load_all_data of upload_to_huggingface              *)
(*   SpecReviews     - one call of scrape_reviews_for_facility             *)
(* Each specification drives its own group of variables and leaves the     *)
(* other groups at their idle values.                                      *)
(***************************************************************************)
EXTENDS Integers, Sequences, FiniteSets, TLC

\* SpecPartition
VARIABLES
    orchestrator,   \* "review" (ReviewScrapingOrchestrator) or "enrich" (EnrichmentOrchestrator)
    num_rows,       \* len(facilities_df)
    procs           \* one started scraper process per <<partition number, partition total>>

\* SpecScrape
VARIABLES
    scraper_kind,       \* "review" (scrape_all_reviews) or "enrich" (enrich_all_facilities)
    facilities_df,      \* the facility list handed to the run, a sequence of rows
    partition,          \* <<partition number, partition total>> of the orchestrator
    save_freq,          \* the run's save_freq argument
    checkpoint_file,    \* content of the checkpoint file on disk
    progress_data,      \* checkpoint_mgr.progress_data
    loaded,             \* progress_data as the constructor loaded it
    partition_df,       \* the rows the loop iterates over
    row_pos,            \* position of the loop in partition_df (1-based)
    processed_count,    \* the loop's processed_count
    scrape_calls,       \* number of scraper invocations per place_id during the run
    unsaved,            \* place_ids recorded since the last successful save_progress
    last_save,          \* outcome of the latest save_progress call: "none", "ok", "failed"
    pc_scrape           \* "new", "value_error", "constructed", "loop", "returned", "raised", "idle"

\* SpecMerge
VARIABLES
    merge_kind,     \* "merge_worker_jsons", "merge_results" or "merge_all_partitions"
    dir_files,      \* the JSON files of the directory: file name -> content
    read_order,     \* the file names in the order the merge read them
    all_results,    \* the merged dictionary
    pc_merge        \* "start", "merged", "nothing_to_merge", "idle"

\* SpecCoordinator
VARIABLES
    coordinator,            \* "json" (coordinator_json) or "lightweight" (coordinator_lightweight)
    jobs_queue,             \* the job list / jobs table: place_id, status, worker_id
    worker_files,           \* coordinator_json: worker file name -> stored results
    results_table,          \* coordinator_lightweight: the results table
    worker_id,              \* ParallelWorker.worker_id of each worker
    pc_worker,              \* where each worker stands in run()
    job,                    \* the job each worker received last, or NoJob
    scrape_result,          \* what scrape_facility gave for that job
    worker_data,            \* the dictionary a /submit_result handler has loaded
    consecutive_failures,   \* run()'s consecutive_failures of each worker
    running,                \* ParallelWorker.running
    submits,                \* submit_result calls each worker made for its last job
    handed,                 \* how often get_job answered with each job
    file_writers,           \* per worker file, the worker_ids whose results were saved to it
    submitted,              \* per worker_id, the place_ids of its submit_result requests that returned
    net_faults              \* requests or responses lost so far

\* SpecBatch
VARIABLES
    csv_rows,       \* data rows of each dong's first-keyword CSV, 0 when there is no file
    progress_json,  \* content of progress.json
    pending_dongs,  \* the dongs the current scrape_all_seoul run still has to scrape
    skipped_dongs,  \* the dongs the latest run left out of its pending list
    batch_workers,  \* the workers argument of the run
    runs,           \* scrape_all_seoul runs started so far
    scraping,       \* per dong: "idle", or scrape_single_dong runs with a "browser" or with "no_scraper"
    browsers_open,  \* browsers started by scrape_single_dong calls and not closed
    leaked,         \* browsers left open by a call that has ended
    pc_batch        \* "ready", "running", "idle"

\* SpecUpload
VARIABLES
    json_files,     \* the JSON files under data_dir, in the order rglob yields them
    file_pos,       \* position of the reading loop in json_files (1-based)
    all_data,       \* the records read so far, with their file metadata
    df,             \* the table load_all_data returns
    pc_upload       \* "reading", "returned", "raised", "idle"

\* SpecReviews
VARIABLES
    review_page,    \* the review items the place's page holds
    review_data,    \* the result dictionary of scrape_reviews_for_facility
    failure,        \* how the call went wrong so far: "none", "failed", "exception", "interrupt"
    pc_reviews      \* the step the call is at, "returned", "raised" or "idle"

partVars == <<orchestrator, num_rows, procs>>

reviewsVars == <<review_page, review_data, failure, pc_reviews>>

batchVars == <<csv_rows, progress_json, pending_dongs, skipped_dongs, batch_workers,
               runs, scraping, browsers_open, leaked, pc_batch>>

uploadVars == <<json_files, file_pos, all_data, df, pc_upload>>

coordVars == <<coordinator, jobs_queue, worker_files, results_table, worker_id, pc_worker,
               job, scrape_result, worker_data, consecutive_failures, running, submits,
               handed, file_writers, submitted, net_faults>>

mergeVars == <<merge_kind, dir_files, read_order, all_results, pc_merge>>

scrapeVars == <<scraper_kind, facilities_df, partition, save_freq, checkpoint_file,
                progress_data, loaded, partition_df, row_pos, processed_count,
                scrape_calls, unsaved, last_save, pc_scrape>>

vars == <<partVars, scrapeVars, mergeVars, coordVars, batchVars, uploadVars, reviewsVars>>

notPartVars == <<scrapeVars, mergeVars, coordVars, batchVars, uploadVars, reviewsVars>>
notScrapeVars == <<partVars, mergeVars, coordVars, batchVars, uploadVars, reviewsVars>>
notMergeVars == <<partVars, scrapeVars, coordVars, batchVars, uploadVars, reviewsVars>>
notCoordVars == <<partVars, scrapeVars, mergeVars, batchVars, uploadVars, reviewsVars>>
notBatchVars == <<partVars, scrapeVars, mergeVars, coordVars, uploadVars, reviewsVars>>
notUploadVars == <<partVars, scrapeVars, mergeVars, coordVars, batchVars, reviewsVars>>
notReviewsVars == <<partVars, scrapeVars, mergeVars, coordVars, batchVars, uploadVars>>

(***************************************************************************)
(* Bounds                                                                  *)
(***************************************************************************)
MaxRows == 3        \* longest facility list of SpecPartition
MaxParts == 2       \* partition totals 1..MaxParts of SpecPartition
BigTotal == 11      \* one further partition total, with two-digit partition numbers
MaxProcs == 3       \* scraper processes running at once in SpecPartition
MaxFacilities == 3  \* longest facility list of SpecScrape
MaxFiles == 3       \* most JSON files in the directory of SpecMerge
MaxJobs == 2        \* most facility rows loaded into the job queue of SpecCoordinator
MaxNetFaults == 1   \* requests or responses that may be lost in SpecCoordinator
MaxRuns == 3        \* scrape_all_seoul runs of SpecBatch
MaxJsonFiles == 3   \* most JSON files under data_dir in SpecUpload
MaxReviews == 2     \* most review items on a place's page in SpecReviews

(***************************************************************************)
(* Strings are sequences of characters.                                    *)
(***************************************************************************)
Digit(d) ==
    CASE d = 0 -> "0" [] d = 1 -> "1" [] d = 2 -> "2" [] d = 3 -> "3" [] d = 4 -> "4"
      [] d = 5 -> "5" [] d = 6 -> "6" [] d = 7 -> "7" [] d = 8 -> "8" [] d = 9 -> "9"

RECURSIVE NatToStr(_)
NatToStr(n) ==
    IF n < 10 THEN <<Digit(n)>> ELSE NatToStr(n \div 10) \o <<Digit(n % 10)>>

\* str(n) / f"{n}" of an int
IntToStr(n) ==
    IF n < 0 THEN <<"-">> \o NatToStr(-n) ELSE NatToStr(n)

RECURSIVE ZeroFill(_, _)
ZeroFill(s, width) ==
    IF Len(s) >= width THEN s ELSE ZeroFill(<<"0">> \o s, width)

\* f"{n:03d}": the sign, then the digits zero-padded so that the whole is 3 wide
Format03d(n) ==
    IF n < 0 THEN <<"-">> \o ZeroFill(NatToStr(-n), 2) ELSE ZeroFill(NatToStr(n), 3)

ReviewProgressStem ==
    <<"r", "e", "v", "i", "e", "w", "_", "s", "c", "r", "a", "p", "i", "n", "g", "_",
      "p", "r", "o", "g", "r", "e", "s", "s">>

EnrichProgressStem ==
    <<"e", "n", "r", "i", "c", "h", "m", "e", "n", "t", "_", "p", "r", "o", "g", "r",
      "e", "s", "s", "_", "p", "a", "r", "t", "i", "t", "i", "o", "n", "_">>

DotJson == <<".", "j", "s", "o", "n">>

(***************************************************************************)
(* Partition selection                                                     *)
(***************************************************************************)
\* list(range(start, stop, step)) as the set of its members, step >= 1
RECURSIVE RangeSet(_, _, _)
RangeSet(start, stop, step) ==
    IF start >= stop THEN {} ELSE {start} \cup RangeSet(start + step, stop, step)

\* A start one past the code's: partition x would begin at row x.
ReviewPartitionIndicesOffByOne(partition_x, partition_y, n) ==
    IF partition_y > 1 THEN RangeSet(partition_x, n, partition_y) ELSE 0 .. (n - 1)

\* ReviewScrapingOrchestrator.scrape_all_reviews: the rows kept by the partition filter
ReviewPartitionIndices(partition_x, partition_y, n) ==
    IF partition_y > 1 THEN RangeSet(partition_x - 1, n, partition_y) ELSE 0 .. (n - 1)

\* EnrichmentOrchestrator.filter_dataframe_by_partition: the rows under the mask
EnrichPartitionIndices(partition_id, total_partitions, n) ==
    {i \in 0 .. (n - 1) : i % total_partitions = partition_id}

\* A checkpoint name that leaves the partition number out.
ReviewCheckpointFileNoNumber(partition_x, partition_y) ==
    IF partition_y > 1
    THEN ReviewProgressStem \o <<"_", "p">> \o <<"_", "o", "f", "_">>
            \o IntToStr(partition_y) \o DotJson
    ELSE ReviewProgressStem \o DotJson

\* ReviewScrapingOrchestrator.__init__: the partition-specific checkpoint file
ReviewCheckpointFile(partition_x, partition_y) ==
    IF partition_y > 1
    THEN ReviewProgressStem \o <<"_", "p">> \o IntToStr(partition_x) \o <<"_", "o", "f", "_">>
            \o IntToStr(partition_y) \o DotJson
    ELSE ReviewProgressStem \o DotJson

\* PartitionedCheckpointManager.__init__: the partition's checkpoint file
EnrichCheckpointFile(partition_id, total_partitions) ==
    EnrichProgressStem \o Format03d(partition_id) \o <<"_", "o", "f", "_">>
        \o Format03d(total_partitions) \o DotJson

(***************************************************************************)
(* SpecPartition: scraper processes started on one facility list, each     *)
(* with its own <<partition number, partition total>>.                     *)
(***************************************************************************)
NotStarted == [state |-> "not_started", indices |-> {}, checkpoint_file |-> <<>>]

\* partition numbers a run with total y may be given: 1..y (review), 0..y-1 (enrich)
PartitionNumbers(kind, y) == IF kind = "review" THEN 1 .. y ELSE 0 .. (y - 1)

PartitionTotals == (1 .. MaxParts) \cup {BigTotal}

PartitionRuns(kind) ==
    {<<x, y>> \in (0 .. BigTotal) \X PartitionTotals : x \in PartitionNumbers(kind, y)}

NumStarted == Cardinality({r \in DOMAIN procs : procs[r].state # "not_started"})

IdlePartition ==
    /\ orchestrator = "idle"
    /\ num_rows = 0
    /\ procs = <<>>

IdleScrape ==
    /\ scraper_kind = "idle"
    /\ facilities_df = <<>>
    /\ partition = <<0, 0>>
    /\ save_freq = 0
    /\ checkpoint_file = <<>>
    /\ progress_data = <<>>
    /\ loaded = <<>>
    /\ partition_df = <<>>
    /\ row_pos = 0
    /\ processed_count = 0
    /\ scrape_calls = <<>>
    /\ unsaved = {}
    /\ last_save = "none"
    /\ pc_scrape = "idle"

IdleMerge ==
    /\ merge_kind = "idle"
    /\ dir_files = <<>>
    /\ read_order = <<>>
    /\ all_results = <<>>
    /\ pc_merge = "idle"

IdleCoordinator ==
    /\ coordinator = "idle"
    /\ jobs_queue = <<>>
    /\ worker_files = <<>>
    /\ results_table = <<>>
    /\ worker_id = <<>>
    /\ pc_worker = <<>>
    /\ job = <<>>
    /\ scrape_result = <<>>
    /\ worker_data = <<>>
    /\ consecutive_failures = <<>>
    /\ running = <<>>
    /\ submits = <<>>
    /\ handed = <<>>
    /\ file_writers = <<>>
    /\ submitted = <<>>
    /\ net_faults = 0

IdleBatch ==
    /\ csv_rows = <<>>
    /\ progress_json = <<>>
    /\ pending_dongs = <<>>
    /\ skipped_dongs = {}
    /\ batch_workers = 0
    /\ runs = 0
    /\ scraping = <<>>
    /\ browsers_open = 0
    /\ leaked = 0
    /\ pc_batch = "idle"

IdleUpload ==
    /\ json_files = <<>>
    /\ file_pos = 0
    /\ all_data = <<>>
    /\ df = <<>>
    /\ pc_upload = "idle"

IdleReviews ==
    /\ review_page = <<>>
    /\ review_data = <<>>
    /\ failure = "none"
    /\ pc_reviews = "idle"

InitPartition ==
    /\ orchestrator \in {"review", "enrich"}
    /\ num_rows \in 0 .. MaxRows
    /\ procs = [r \in PartitionRuns(orchestrator) |-> NotStarted]
    /\ IdleScrape
    /\ IdleMerge
    /\ IdleCoordinator
    /\ IdleBatch
    /\ IdleUpload
    /\ IdleReviews

\* python ... --partition x --total y on naver_review_scraper.py
StartReviewPartition(x, y) ==
    /\ orchestrator = "review"
    /\ <<x, y>> \in PartitionRuns("review")
    /\ procs[<<x, y>>].state = "not_started"
    /\ NumStarted < MaxProcs
    /\ procs' = [procs EXCEPT ![<<x, y>>] =
                    [state |-> "scraping",
                     indices |-> ReviewPartitionIndices(x, y, num_rows),
                     checkpoint_file |-> ReviewCheckpointFile(x, y)]]
    /\ UNCHANGED <<orchestrator, num_rows>>
    /\ UNCHANGED notPartVars

\* python ... --partition x --total y on enrich_medical_info.py; the filter's
\* percentage print divides by len(df) and raises on an empty list
StartEnrichPartition(x, y) ==
    /\ orchestrator = "enrich"
    /\ <<x, y>> \in PartitionRuns("enrich")
    /\ procs[<<x, y>>].state = "not_started"
    /\ NumStarted < MaxProcs
    /\ procs' = [procs EXCEPT ![<<x, y>>] =
                    [state |-> IF num_rows = 0 THEN "raised" ELSE "scraping",
                     indices |-> EnrichPartitionIndices(x, y, num_rows),
                     checkpoint_file |-> EnrichCheckpointFile(x, y)]]
    /\ UNCHANGED <<orchestrator, num_rows>>
    /\ UNCHANGED notPartVars

NextPartition ==
    \/ \E x \in 0 .. BigTotal, y \in PartitionTotals : StartReviewPartition(x, y)
    \/ \E x \in 0 .. BigTotal, y \in PartitionTotals : StartEnrichPartition(x, y)

SpecPartition == InitPartition /\ [][NextPartition]_vars

(***************************************************************************)
(* C1                                                                      *)
(***************************************************************************)
Started(r) == procs[r].state # "not_started"

AllStarted(y) ==
    \A x \in PartitionNumbers(orchestrator, y) : Started(<<x, y>>)

\* C1: for every list length n and partition total Y >= 1, the row-index sets
\* selected by the partitions of Y are pairwise disjoint, and once all Y
\* partitions have selected their rows the sets together cover 0..n-1: every
\* row belongs to exactly one partition.
C1_PartitionsDisjointAndCover ==
    \A y \in PartitionTotals :
        /\ \A x1, x2 \in PartitionNumbers(orchestrator, y) :
              (x1 # x2 /\ Started(<<x1, y>>) /\ Started(<<x2, y>>))
                  => procs[<<x1, y>>].indices \cap procs[<<x2, y>>].indices = {}
        /\ AllStarted(y) =>
              UNION {procs[<<x, y>>].indices : x \in PartitionNumbers(orchestrator, y)}
                  = 0 .. (num_rows - 1)

\* C1 witness: all partitions of a total >= 2 have selected rows of a list long
\* enough that a partition holds more than one row.
C1_Witness ==
    \E y \in 2 .. MaxParts :
        /\ AllStarted(y)
        /\ num_rows > y
        /\ \E x \in PartitionNumbers(orchestrator, y) :
              Cardinality(procs[<<x, y>>].indices) >= 2

(***************************************************************************)
(* C9                                                                      *)
(***************************************************************************)
\* C9: processes started with different partition numbers and the same total
\* use different checkpoint files, and an unpartitioned run (total 1) uses a
\* file that no partitioned run (total > 1) uses.
C9_DistinctCheckpointFiles ==
    \A r1, r2 \in PartitionRuns(orchestrator) :
        (Started(r1) /\ Started(r2) /\ r1 # r2 /\ (r1[2] = r2[2] \/ r1[2] = 1))
            => procs[r1].checkpoint_file # procs[r2].checkpoint_file

\* C9 witness: two partitions of one total, one with a two-digit number, and an
\* unpartitioned run are all running at once.
C9_Witness ==
    \E y \in PartitionTotals :
        /\ \E x1, x2 \in PartitionNumbers(orchestrator, y) :
              x1 >= 10 /\ x1 # x2 /\ Started(<<x1, y>>) /\ Started(<<x2, y>>)
        /\ \E x \in PartitionNumbers(orchestrator, 1) : Started(<<x, 1>>)

(***************************************************************************)
(* SpecScrape: one run of scrape_all_reviews / enrich_all_facilities over  *)
(* a checkpoint file left by earlier runs.                                 *)
(***************************************************************************)
PlaceIds == {"p1", "p2"}

Absent == [kind |-> "absent", run |-> "none"]

\* what a checkpoint entry records, and whether this run or an earlier one wrote it
OldEntries == [kind : {"reviews", "none", "error"}, run : {"old"}]

\* a JSON object place_id -> entry, as a function that is Absent off its keys
Keys(d) == {p \in DOMAIN d : d[p] # Absent}

EmptyDict == [p \in PlaceIds |-> Absent]

\* rows of the facility list: place_id, and whether the name holds one of the
\* keywords enrich_all_facilities requires
FacilityRows(kind) ==
    [place_id : PlaceIds, medical : IF kind = "enrich" THEN BOOLEAN ELSE {TRUE}]

SeqsUpTo(S, n) == UNION {[1 .. k -> S] : k \in 0 .. n}

SaveFreqs == {1, 2}

\* the <<partition_x, partition_y>> a ReviewScrapingOrchestrator may be built with
ReviewPartitionArgs == (-1 .. 3) \X (-1 .. 2)

\* a validation without the upper limit of partition_x
ValidReviewPartitionNoUpper(partition_x, partition_y) ==
    /\ ~(partition_y < 1)
    /\ ~(partition_x < 1)

\* ReviewScrapingOrchestrator.__init__: neither ValueError is raised
ValidReviewPartition(partition_x, partition_y) ==
    /\ ~(partition_y < 1)
    /\ ~(partition_x < 1 \/ partition_x > partition_y)

ScrapePartitions(kind) ==
    IF kind = "review" THEN ReviewPartitionArgs
    ELSE {<<0, 1>>, <<0, 2>>, <<1, 2>>}

\* the rows of df at the 0-based positions in indices, in order (df.iloc[...], df[mask])
RECURSIVE TakeRows(_, _, _)
TakeRows(frame, indices, i) ==
    IF i > Len(frame) THEN <<>>
    ELSE (IF (i - 1) \in indices THEN <<frame[i]>> ELSE <<>>)
            \o TakeRows(frame, indices, i + 1)

\* a file on disk: missing, holding a JSON object, or holding no valid JSON
MissingFile == [state |-> "missing", data |-> EmptyDict]
CorruptFile == [state |-> "corrupt", data |-> EmptyDict]
JsonFile(data) == [state |-> "json", data |-> data]

\* load_progress: the file's JSON object, or {} when the file cannot be parsed;
\* the constructor leaves progress_data = {} when the file does not exist
LoadProgress(file) ==
    IF file.state = "json" THEN file.data ELSE EmptyDict

\* save_progress: the write succeeds, or it raises and the error is only printed,
\* leaving the file as it was (open failed) or truncated (the dump failed)
SaveOutcomes == {"ok", "open_failed", "dump_failed"}

SaveProgress(file, data, outcome) ==
    CASE outcome = "ok" -> JsonFile(data)
      [] outcome = "open_failed" -> file
      [] outcome = "dump_failed" -> CorruptFile

\* is_processed answering for the row's name instead of its place_id: never true
IsProcessedNever(data, place_id) == FALSE

\* is_processed
IsProcessed(data, place_id) == data[place_id] # Absent

\* add_facility
AddFacility(data, place_id, entry) == [data EXCEPT ![place_id] = entry]

\* a loop that ends normally without the finally block's save_progress
FinalSaveSkipped(file, data, outcome) == file

\* the finally block's save_progress
FinalSave(file, data, outcome) == SaveProgress(file, data, outcome)

InitScrape ==
    /\ scraper_kind \in {"review", "enrich"}
    /\ facilities_df \in SeqsUpTo(FacilityRows(scraper_kind), MaxFacilities)
    /\ partition \in ScrapePartitions(scraper_kind)
    /\ save_freq \in SaveFreqs
    /\ checkpoint_file \in {MissingFile, CorruptFile}
                            \cup {JsonFile(d) : d \in [PlaceIds -> OldEntries \cup {Absent}]}
    /\ progress_data = EmptyDict
    /\ loaded = EmptyDict
    /\ partition_df = <<>>
    /\ row_pos = 0
    /\ processed_count = 0
    /\ scrape_calls = [p \in PlaceIds |-> 0]
    /\ unsaved = {}
    /\ last_save = "none"
    /\ pc_scrape = "new"
    /\ IdlePartition
    /\ IdleMerge
    /\ IdleCoordinator
    /\ IdleBatch
    /\ IdleUpload
    /\ IdleReviews

\* ReviewScrapingOrchestrator.__init__ with a partition it rejects: after
\* output_dir.mkdir it raises ValueError
NewOrchestratorRaises ==
    /\ pc_scrape = "new"
    /\ scraper_kind = "review"
    /\ ~ValidReviewPartition(partition[1], partition[2])
    /\ pc_scrape' = "value_error"
    /\ UNCHANGED <<scraper_kind, facilities_df, partition, save_freq, checkpoint_file,
                   progress_data, loaded, partition_df, row_pos, processed_count,
                   scrape_calls, unsaved, last_save>>
    /\ UNCHANGED notScrapeVars

\* the orchestrator's constructor past its validation:
\* ReviewCheckpointManager.__init__ / PartitionedCheckpointManager.__init__
NewOrchestrator ==
    /\ pc_scrape = "new"
    /\ scraper_kind = "review" => ValidReviewPartition(partition[1], partition[2])
    /\ progress_data' = LoadProgress(checkpoint_file)
    /\ loaded' = LoadProgress(checkpoint_file)
    /\ pc_scrape' = "constructed"
    /\ UNCHANGED <<scraper_kind, facilities_df, partition, save_freq, checkpoint_file,
                   partition_df, row_pos, processed_count, scrape_calls, unsaved, last_save>>
    /\ UNCHANGED notScrapeVars

\* the part of the run before its try block: the partition filter and setup_driver
BeginRun ==
    /\ pc_scrape = "constructed"
    /\ ~(scraper_kind = "enrich" /\ Len(facilities_df) = 0)
    /\ partition_df' =
          TakeRows(facilities_df,
                   IF scraper_kind = "review"
                   THEN ReviewPartitionIndices(partition[1], partition[2], Len(facilities_df))
                   ELSE EnrichPartitionIndices(partition[1], partition[2], Len(facilities_df)),
                   1)
    /\ row_pos' = 1
    /\ processed_count' = 0
    /\ pc_scrape' = "loop"
    /\ UNCHANGED <<scraper_kind, facilities_df, partition, save_freq, checkpoint_file,
                   progress_data, loaded, scrape_calls, unsaved, last_save>>
    /\ UNCHANGED notScrapeVars

\* the run raises before its try block: setup_driver fails, or the enrichment
\* filter divides by the length of an empty list
BeginRunRaises ==
    /\ pc_scrape = "constructed"
    /\ pc_scrape' = "raised"
    /\ UNCHANGED <<scraper_kind, facilities_df, partition, save_freq, checkpoint_file,
                   progress_data, loaded, partition_df, row_pos, processed_count,
                   scrape_calls, unsaved, last_save>>
    /\ UNCHANGED notScrapeVars

CurrentRow == partition_df[row_pos]

\* the loop's two "continue" tests
SkipsRow(row) ==
    \/ scraper_kind = "enrich" /\ ~row.medical
    \/ IsProcessed(progress_data, row.place_id)

\* one iteration that skips its row
LoopSkip ==
    /\ pc_scrape = "loop"
    /\ row_pos <= Len(partition_df)
    /\ SkipsRow(CurrentRow)
    /\ row_pos' = row_pos + 1
    /\ UNCHANGED <<scraper_kind, facilities_df, partition, save_freq, checkpoint_file,
                   progress_data, loaded, partition_df, processed_count, scrape_calls,
                   unsaved, last_save, pc_scrape>>
    /\ UNCHANGED notScrapeVars

\* the entry recorded for a scrape that returned (reviews, none, error) or raised
EntryFor(result) ==
    [kind |-> IF result = "raised" THEN "error" ELSE result, run |-> "new"]

ScrapeResults == {"reviews", "none", "error", "raised"}

\* a loop without the periodic save_progress
PeriodicSaveNever(count, freq) == FALSE

\* "if processed_count % save_freq == 0"
PeriodicSaveDue(count, freq) == count % freq = 0

\* one iteration that scrapes its row, records the entry and saves when
\* processed_count reaches a multiple of save_freq
LoopScrape(result, outcome) ==
    /\ pc_scrape = "loop"
    /\ row_pos <= Len(partition_df)
    /\ ~SkipsRow(CurrentRow)
    /\ LET place_id == CurrentRow.place_id
           data == AddFacility(progress_data, place_id, EntryFor(result))
           saves == PeriodicSaveDue(processed_count + 1, save_freq)
       IN  /\ processed_count' = processed_count + 1
           /\ scrape_calls' = [scrape_calls EXCEPT ![place_id] = @ + 1]
           /\ progress_data' = data
           /\ IF saves
              THEN /\ checkpoint_file' = SaveProgress(checkpoint_file, data, outcome)
                   /\ last_save' = IF outcome = "ok" THEN "ok" ELSE "failed"
                   /\ unsaved' = IF outcome = "ok" THEN {} ELSE unsaved \cup {place_id}
              ELSE /\ outcome = "ok"
                   /\ UNCHANGED <<checkpoint_file, last_save>>
                   /\ unsaved' = unsaved \cup {place_id}
    /\ row_pos' = row_pos + 1
    /\ UNCHANGED <<scraper_kind, facilities_df, partition, save_freq, loaded,
                   partition_df, pc_scrape>>
    /\ UNCHANGED notScrapeVars

\* close_driver in the finally block: the review scraper's quit() may raise, the
\* enrichment scraper catches the error
CloseDriverResults == IF scraper_kind = "review" THEN {"ok", "raised"} ELSE {"ok"}

\* the finally block, entered with the loop finished (normal) or aborted
Finally(normal, closed, outcome) ==
    /\ closed \in CloseDriverResults
    /\ IF closed = "raised"
       THEN /\ outcome = "ok"
            /\ pc_scrape' = "raised"
            /\ UNCHANGED <<checkpoint_file, last_save, unsaved>>
       ELSE /\ checkpoint_file' = FinalSave(checkpoint_file, progress_data', outcome)
            /\ last_save' = IF outcome = "ok" THEN "ok" ELSE "failed"
            /\ unsaved' = IF outcome = "ok" THEN {} ELSE unsaved
            /\ pc_scrape' = IF normal THEN "returned" ELSE "raised"

\* the loop is exhausted: finally, then return progress_data
EndLoop(closed, outcome) ==
    /\ pc_scrape = "loop"
    /\ row_pos > Len(partition_df)
    /\ UNCHANGED progress_data
    /\ Finally(TRUE, closed, outcome)
    /\ UNCHANGED <<scraper_kind, facilities_df, partition, save_freq, loaded,
                   partition_df, row_pos, processed_count, scrape_calls>>
    /\ UNCHANGED notScrapeVars

\* KeyboardInterrupt (or another error the loop does not catch) between two
\* iterations or before the row's scrape result is recorded
LoopInterrupt(closed, outcome) ==
    /\ pc_scrape = "loop"
    /\ UNCHANGED progress_data
    /\ Finally(FALSE, closed, outcome)
    /\ UNCHANGED <<scraper_kind, facilities_df, partition, save_freq, loaded,
                   partition_df, row_pos, processed_count, scrape_calls>>
    /\ UNCHANGED notScrapeVars

NextScrape ==
    \/ NewOrchestratorRaises
    \/ NewOrchestrator
    \/ BeginRun
    \/ BeginRunRaises
    \/ LoopSkip
    \/ \E result \in ScrapeResults, outcome \in SaveOutcomes : LoopScrape(result, outcome)
    \/ \E closed \in {"ok", "raised"}, outcome \in SaveOutcomes : EndLoop(closed, outcome)
    \/ \E closed \in {"ok", "raised"}, outcome \in SaveOutcomes : LoopInterrupt(closed, outcome)

SpecScrape == InitScrape /\ [][NextScrape]_vars

(***************************************************************************)
(* C3                                                                      *)
(***************************************************************************)
\* C3: on a re-run, a facility whose place_id is a key of the loaded checkpoint
\* is skipped: the scraper is never invoked for it and its entry stays as it was
\* loaded, in progress_data and in every checkpoint file the run writes,
\* whatever the entry records.
C3_ProcessedSkippedAndUnchanged ==
    pc_scrape \in {"constructed", "loop", "returned", "raised"} =>
        \A p \in Keys(loaded) :
            /\ scrape_calls[p] = 0
            /\ progress_data[p] = loaded[p]
            /\ checkpoint_file.state = "json" => checkpoint_file.data[p] = loaded[p]

\* C3 witness: a finished run whose partition holds a facility that was loaded
\* with a scrape_error entry, and another facility that the run scraped.
C3_Witness ==
    /\ pc_scrape = "returned"
    /\ \E i, j \in 1 .. Len(partition_df) :
          /\ partition_df[i].place_id \in Keys(loaded)
          /\ loaded[partition_df[i].place_id].kind = "error"
          /\ partition_df[i].medical
          /\ scrape_calls[partition_df[j].place_id] = 1

(***************************************************************************)
(* C4                                                                      *)
(***************************************************************************)
PartitionPlaceIds == {partition_df[i].place_id : i \in 1 .. Len(partition_df)}

MergeEntries == [kind : {"reviews", "none"}, run : {"old"}]

FileContents == {CorruptFile} \cup {JsonFile(d) : d \in [PlaceIds -> MergeEntries \cup {Absent}]}

\* the orders in which a set of file names may be listed
Orders(S) == {o \in [1 .. Cardinality(S) -> S] : \A i, j \in DOMAIN o : i # j => o[i] # o[j]}

\* sorted(...): file names are numbered in their sort order
SortedOrder(S) == CHOOSE o \in Orders(S) : \A i, j \in DOMAIN o : i < j => o[i] < o[j]

\* a merge that keeps the entry it already has
DictUpdateKeepFirst(acc, d) ==
    [p \in PlaceIds |-> IF acc[p] # Absent THEN acc[p] ELSE d[p]]

\* dict.update
DictUpdate(acc, d) ==
    [p \in PlaceIds |-> IF d[p] # Absent THEN d[p] ELSE acc[p]]

\* the loop over the files: a file that cannot be read is reported and skipped
RECURSIVE MergeFiles(_, _, _, _)
MergeFiles(files, order, i, acc) ==
    IF i > Len(order) THEN acc
    ELSE MergeFiles(files, order, i + 1,
                    IF files[order[i]].state = "json"
                    THEN DictUpdate(acc, files[order[i]].data)
                    ELSE acc)

InitMerge ==
    /\ merge_kind \in {"merge_worker_jsons", "merge_results", "merge_all_partitions"}
    /\ \E k \in 0 .. MaxFiles : dir_files \in [1 .. k -> FileContents]
    /\ read_order = <<>>
    /\ all_results = EmptyDict
    /\ pc_merge = "start"
    /\ IdlePartition
    /\ IdleScrape
    /\ IdleCoordinator
    /\ IdleBatch
    /\ IdleUpload
    /\ IdleReviews

\* merge.py merge_worker_jsons: returns early when the directory holds no JSON
\* file; otherwise reads the files in glob order
MergeWorkerJsons ==
    /\ merge_kind = "merge_worker_jsons"
    /\ pc_merge = "start"
    /\ IF DOMAIN dir_files = {}
       THEN /\ pc_merge' = "nothing_to_merge"
            /\ UNCHANGED <<read_order, all_results>>
       ELSE /\ \E order \in Orders(DOMAIN dir_files) :
                  /\ read_order' = order
                  /\ all_results' = MergeFiles(dir_files, order, 1, EmptyDict)
            /\ pc_merge' = "merged"
    /\ UNCHANGED <<merge_kind, dir_files>>
    /\ UNCHANGED notMergeVars

\* coordinator_json.py /merge_results: reads the files in glob order
MergeResults ==
    /\ merge_kind = "merge_results"
    /\ pc_merge = "start"
    /\ \E order \in Orders(DOMAIN dir_files) :
          /\ read_order' = order
          /\ all_results' = MergeFiles(dir_files, order, 1, EmptyDict)
    /\ pc_merge' = "merged"
    /\ UNCHANGED <<merge_kind, dir_files>>
    /\ UNCHANGED notMergeVars

\* PartitionedCheckpointManager.merge_all_partitions: reads the files in sorted order
MergeAllPartitions ==
    /\ merge_kind = "merge_all_partitions"
    /\ pc_merge = "start"
    /\ read_order' = SortedOrder(DOMAIN dir_files)
    /\ all_results' = MergeFiles(dir_files, SortedOrder(DOMAIN dir_files), 1, EmptyDict)
    /\ pc_merge' = "merged"
    /\ UNCHANGED <<merge_kind, dir_files>>
    /\ UNCHANGED notMergeVars

NextMerge ==
    \/ MergeWorkerJsons
    \/ MergeResults
    \/ MergeAllPartitions

SpecMerge == InitMerge /\ [][NextMerge]_vars

(***************************************************************************)
(* C5                                                                      *)
(***************************************************************************)
Readable(f) == dir_files[f].state = "json"

\* positions in read_order of the readable files that hold place_id p
HoldersOf(p) ==
    {i \in DOMAIN read_order :
        Readable(read_order[i]) /\ p \in Keys(dir_files[read_order[i]].data)}

Max(S) == CHOOSE m \in S : \A n \in S : n <= m

\* C5: a merge yields one entry per place_id, its key set is the union of the
\* key sets of the files that could be read, and for a place_id held by several
\* files the entry of the file read last is the one kept.
C5_MergeIsUnionLastWins ==
    pc_merge = "merged" =>
        /\ Keys(all_results) =
              UNION {Keys(dir_files[f].data) : f \in {g \in DOMAIN dir_files : Readable(g)}}
        /\ \A p \in Keys(all_results) :
              all_results[p] = dir_files[read_order[Max(HoldersOf(p))]].data[p]

\* C5 witness: a finished merge of three files, one of them unreadable, where a
\* place_id is held with different entries by the two readable files and another
\* place_id by only the one read first.
C5_Witness ==
    /\ pc_merge = "merged"
    /\ Len(read_order) = 3
    /\ \E f \in DOMAIN dir_files : ~Readable(f)
    /\ \E p, q \in PlaceIds :
          /\ Cardinality(HoldersOf(p)) = 2
          /\ \E i, j \in HoldersOf(p) :
                dir_files[read_order[i]].data[p] # dir_files[read_order[j]].data[p]
          /\ Cardinality(HoldersOf(q)) = 1
          /\ \A i \in HoldersOf(q) : i < Max(HoldersOf(p))

(***************************************************************************)
(* SpecCoordinator: coordinator_json.py or coordinator_lightweight.py      *)
(* serving the ParallelWorkers of multi_worker.py.  The Flask server runs  *)
(* threaded, so the handlers of different requests interleave wherever     *)
(* they hold no lock.                                                      *)
(***************************************************************************)
Workers == {1, 2}

\* worker_id strings a request may carry
WorkerIds == {<<"h", "/", "1">>, <<"h", "_", "1">>, <<"h", "-", "1">>}

\* the worker_id of the first worker; the second has the same one, one that
\* differs in a separator that get_worker_file replaces, or one that differs elsewhere
FirstWorkerId == <<"h", "_", "1">>

NoJob == "none"

NoResult == [kind |-> "absent", run |-> "none"]

\* get_worker_file: worker_id.replace('/', '_').replace('\\', '_')
SafeId(id) ==
    [i \in DOMAIN id |-> IF id[i] \in {"/", "\\"} THEN "_" ELSE id[i]]

\* get_worker_file: OUTPUT_DIR / f"{safe_id}.json"
GetWorkerFile(id) == SafeId(id) \o DotJson

WorkerFileNames == {GetWorkerFile(id) : id \in WorkerIds}

\* what scrape_facility does for a job: returns review data (reviews, none,
\* error = scrape_error set) or raises
JobResults == {"reviews", "none", "error", "raised"}

\* process_job: success = has_reviews or scrape_error is None; False after an exception
Success(result) == result \in {"reviews", "none"}

\* a process_job whose except branch only counts the failure
SubmitCallsNoneOnRaise(result) == IF result = "raised" THEN 0 ELSE 1

\* process_job: the submit_result calls made for a scrape result, one at the end
\* of the try block or one in the except branch
SubmitCalls(result) ==
    CASE result = "raised" -> 1
      [] OTHER -> 1

\* process_job: the result_data submitted, the scraped review data or, after an
\* exception, {'facility_name': facility_name}
ResultData(result) ==
    [kind |-> IF result = "raised" THEN "facility_name" ELSE "review_data", run |-> "new"]

\* ParallelWorker.submit_result: the json of the request
Request(result) == [success |-> Success(result), result_data |-> ResultData(result)]

NoRequest == [success |-> FALSE, result_data |-> NoResult]

\* the job list built from the rows of the parquet file, one job per row
JobsFromRows(rows) ==
    [i \in DOMAIN rows |-> [place_id |-> rows[i], status |-> "pending", worker_id |-> <<>>]]

\* INSERT OR IGNORE on the place_id primary key: the first row of each place_id
RECURSIVE DistinctRows(_, _)
DistinctRows(rows, seen) ==
    IF rows = <<>> THEN <<>>
    ELSE IF Head(rows) \in seen THEN DistinctRows(Tail(rows), seen)
    ELSE <<Head(rows)>> \o DistinctRows(Tail(rows), seen \cup {Head(rows)})

\* load_jobs_from_parquet (json) / load_facilities_into_queue (lightweight)
LoadJobs(kind, rows) ==
    IF kind = "json" THEN JobsFromRows(rows) ELSE JobsFromRows(DistinctRows(rows, {}))

InitCoordinator ==
    /\ coordinator \in {"json", "lightweight"}
    /\ \E rows \in SeqsUpTo(PlaceIds, MaxJobs) : jobs_queue = LoadJobs(coordinator, rows)
    /\ worker_files = [f \in WorkerFileNames |-> EmptyDict]
    /\ results_table = EmptyDict
    /\ worker_id \in {ids \in [Workers -> WorkerIds] : ids[1] = FirstWorkerId}
    /\ pc_worker = [w \in Workers |-> "poll"]
    /\ job = [w \in Workers |-> NoJob]
    /\ scrape_result = [w \in Workers |-> NoRequest]
    /\ worker_data = [w \in Workers |-> EmptyDict]
    /\ consecutive_failures = [w \in Workers |-> 0]
    /\ running = [w \in Workers |-> TRUE]
    /\ submits = [w \in Workers |-> 0]
    /\ handed = [i \in DOMAIN jobs_queue |-> 0]
    /\ file_writers = [f \in WorkerFileNames |-> {}]
    /\ submitted = [id \in WorkerIds |-> {}]
    /\ net_faults = 0
    /\ IdlePartition
    /\ IdleScrape
    /\ IdleMerge
    /\ IdleBatch
    /\ IdleUpload
    /\ IdleReviews

max_consecutive_failures == 3

PendingJobs == {i \in DOMAIN jobs_queue : jobs_queue[i].status = "pending"}

Min(S) == CHOOSE m \in S : \A n \in S : m <= n

\* a /get_job that finds no pending job whatever the queue holds
CandidatesNone(kind) == {}

\* /get_job picks among these: the first pending job of the list (json), any
\* pending row of the table (lightweight: SELECT ... LIMIT 1 without ORDER BY)
Candidates(kind) ==
    IF PendingJobs = {} THEN {}
    ELSE IF kind = "json" THEN {Min(PendingJobs)} ELSE PendingJobs

\* the worker's side of a poll that returned no job
PollsNone(w) ==
    /\ consecutive_failures' = [consecutive_failures EXCEPT ![w] = @ + 1]
    /\ pc_worker' = [pc_worker EXCEPT ![w] =
                        IF consecutive_failures[w] + 1 >= max_consecutive_failures
                        THEN "stopped" ELSE "poll"]
    /\ job' = [job EXCEPT ![w] = NoJob]
    /\ UNCHANGED submits

\* run() polls, /get_job answers under the lock with a pending job, which it
\* marks in_progress for the worker
GetJob(w, i) ==
    /\ pc_worker[w] = "poll"
    /\ running[w]
    /\ i \in Candidates(coordinator)
    /\ jobs_queue' = [jobs_queue EXCEPT ![i].status = "in_progress",
                                        ![i].worker_id = worker_id[w]]
    /\ handed' = [handed EXCEPT ![i] = @ + 1]
    /\ job' = [job EXCEPT ![w] = jobs_queue[i].place_id]
    /\ consecutive_failures' = [consecutive_failures EXCEPT ![w] = 0]
    /\ submits' = [submits EXCEPT ![w] = 0]
    /\ pc_worker' = [pc_worker EXCEPT ![w] = "process"]
    /\ UNCHANGED <<coordinator, worker_files, results_table, worker_id, scrape_result,
                   worker_data, running, file_writers, submitted, net_faults>>
    /\ UNCHANGED notCoordVars

\* run() polls and /get_job answers {'job': None}: no job is pending
GetJobNone(w) ==
    /\ pc_worker[w] = "poll"
    /\ running[w]
    /\ Candidates(coordinator) = {}
    /\ PollsNone(w)
    /\ UNCHANGED <<coordinator, jobs_queue, worker_files, results_table, worker_id,
                   scrape_result, worker_data, running, handed, file_writers, submitted, net_faults>>
    /\ UNCHANGED notCoordVars

\* the poll's request does not reach the coordinator: ParallelWorker.get_job
\* swallows the error and returns None
GetJobRequestLost(w) ==
    /\ pc_worker[w] = "poll"
    /\ running[w]
    /\ net_faults < MaxNetFaults
    /\ net_faults' = net_faults + 1
    /\ PollsNone(w)
    /\ UNCHANGED <<coordinator, jobs_queue, worker_files, results_table, worker_id,
                   scrape_result, worker_data, running, handed, file_writers, submitted>>
    /\ UNCHANGED notCoordVars

\* /get_job assigns a job but the answer does not arrive within the timeout:
\* ParallelWorker.get_job returns None
GetJobResponseLost(w, i) ==
    /\ pc_worker[w] = "poll"
    /\ running[w]
    /\ net_faults < MaxNetFaults
    /\ i \in Candidates(coordinator)
    /\ net_faults' = net_faults + 1
    /\ jobs_queue' = [jobs_queue EXCEPT ![i].status = "in_progress",
                                        ![i].worker_id = worker_id[w]]
    /\ handed' = [handed EXCEPT ![i] = @ + 1]
    /\ PollsNone(w)
    /\ UNCHANGED <<coordinator, worker_files, results_table, worker_id, scrape_result,
                   worker_data, running, file_writers, submitted>>
    /\ UNCHANGED notCoordVars

\* the first job of the list with the place_id (json: for ... break)
FirstJobWith(place_id) ==
    LET S == {i \in DOMAIN jobs_queue : jobs_queue[i].place_id = place_id}
    IN  IF S = {} THEN {} ELSE {Min(S)}

\* the status /submit_result gives the job
SubmittedStatus(success) == IF success THEN "completed" ELSE "failed"

\* process_job scrapes and calls submit_result; with coordinator_lightweight the
\* whole handler runs under db_lock, with coordinator_json the handler thread
\* starts here and goes on in SubmitStatus, SubmitLoad, SubmitSave
ProcessJob(w, result) ==
    /\ pc_worker[w] = "process"
    /\ scrape_result' = [scrape_result EXCEPT ![w] =
                            IF coordinator = "json" /\ SubmitCalls(result) > 0
                            THEN Request(result) ELSE NoRequest]
    /\ submits' = [submits EXCEPT ![w] = @ + SubmitCalls(result)]
    /\ IF SubmitCalls(result) = 0
       THEN /\ pc_worker' = [pc_worker EXCEPT ![w] = "poll"]
            /\ UNCHANGED <<jobs_queue, results_table>>
       ELSE IF coordinator = "json"
       THEN /\ pc_worker' = [pc_worker EXCEPT ![w] = "submit_status"]
            /\ UNCHANGED <<jobs_queue, results_table>>
       ELSE /\ pc_worker' = [pc_worker EXCEPT ![w] = "poll"]
            /\ jobs_queue' = [i \in DOMAIN jobs_queue |->
                                IF jobs_queue[i].place_id = job[w]
                                THEN [jobs_queue[i] EXCEPT !.status = SubmittedStatus(Success(result))]
                                ELSE jobs_queue[i]]
            /\ results_table' = IF Success(result)
                                THEN [results_table EXCEPT ![job[w]] = ResultData(result)]
                                ELSE results_table
    /\ UNCHANGED <<coordinator, worker_files, worker_id, job, worker_data,
                   consecutive_failures, running, handed, file_writers, submitted, net_faults>>
    /\ UNCHANGED notCoordVars

\* process_job scrapes and calls submit_result, but the request is lost:
\* ParallelWorker.submit_result swallows the error
ProcessJobSubmitLost(w, result) ==
    /\ pc_worker[w] = "process"
    /\ net_faults < MaxNetFaults
    /\ net_faults' = net_faults + 1
    /\ submits' = [submits EXCEPT ![w] = @ + SubmitCalls(result)]
    /\ pc_worker' = [pc_worker EXCEPT ![w] = "poll"]
    /\ UNCHANGED <<coordinator, jobs_queue, worker_files, results_table, worker_id, job,
                   scrape_result, worker_data, consecutive_failures, running, handed, file_writers, submitted>>
    /\ UNCHANGED notCoordVars

\* coordinator_json /submit_result, under jobs_lock: the status of the first job
\* with the place_id
SubmitStatus(w) ==
    /\ pc_worker[w] = "submit_status"
    /\ jobs_queue' = [i \in DOMAIN jobs_queue |->
                        IF i \in FirstJobWith(job[w])
                        THEN [jobs_queue[i] EXCEPT !.status = SubmittedStatus(scrape_result[w].success)]
                        ELSE jobs_queue[i]]
    /\ pc_worker' = [pc_worker EXCEPT ![w] = "submit_load"]
    /\ UNCHANGED <<coordinator, worker_files, results_table, worker_id, job, scrape_result,
                   worker_data, consecutive_failures, running, submits, handed,
                   file_writers, submitted, net_faults>>
    /\ UNCHANGED notCoordVars

\* coordinator_json /submit_result: load_worker_data, outside any lock
SubmitLoad(w) ==
    /\ pc_worker[w] = "submit_load"
    /\ worker_data' = [worker_data EXCEPT ![w] = worker_files[GetWorkerFile(worker_id[w])]]
    /\ pc_worker' = [pc_worker EXCEPT ![w] = "submit_save"]
    /\ UNCHANGED <<coordinator, jobs_queue, worker_files, results_table, worker_id, job,
                   scrape_result, consecutive_failures, running, submits, handed,
                   file_writers, submitted, net_faults>>
    /\ UNCHANGED notCoordVars

\* coordinator_json /submit_result: worker_data[place_id] = result_data and
\* save_worker_data under the worker's lock; the answer lets run() go on
SubmitSave(w) ==
    /\ pc_worker[w] = "submit_save"
    /\ LET f == GetWorkerFile(worker_id[w])
       IN  /\ worker_files' = [worker_files EXCEPT ![f] =
                                  [worker_data[w] EXCEPT ![job[w]] =
                                      scrape_result[w].result_data]]
           /\ file_writers' = [file_writers EXCEPT ![f] = @ \cup {worker_id[w]}]
    /\ submitted' = [submitted EXCEPT ![worker_id[w]] = @ \cup {job[w]}]
    /\ worker_data' = [worker_data EXCEPT ![w] = EmptyDict]
    /\ scrape_result' = [scrape_result EXCEPT ![w] = NoRequest]
    /\ pc_worker' = [pc_worker EXCEPT ![w] = "poll"]
    /\ UNCHANGED <<coordinator, jobs_queue, results_table, worker_id, job,
                   consecutive_failures, running, submits, handed, net_faults>>
    /\ UNCHANGED notCoordVars

\* ParallelWorker.stop sets running = False at any moment; run() sees it at the
\* next test of "while self.running" and returns, which is where the step is taken
StopWorker(w) ==
    /\ pc_worker[w] = "poll"
    /\ running[w]
    /\ running' = [running EXCEPT ![w] = FALSE]
    /\ pc_worker' = [pc_worker EXCEPT ![w] = "stopped"]
    /\ job' = [job EXCEPT ![w] = NoJob]
    /\ UNCHANGED <<coordinator, jobs_queue, worker_files, results_table, worker_id,
                   scrape_result, worker_data, consecutive_failures, submits, handed,
                   file_writers, submitted, net_faults>>
    /\ UNCHANGED notCoordVars

NextCoordinator ==
    \/ \E w \in Workers, i \in DOMAIN jobs_queue : GetJob(w, i)
    \/ \E w \in Workers : GetJobNone(w)
    \/ \E w \in Workers : GetJobRequestLost(w)
    \/ \E w \in Workers, i \in DOMAIN jobs_queue : GetJobResponseLost(w, i)
    \/ \E w \in Workers, result \in JobResults : ProcessJob(w, result)
    \/ \E w \in Workers, result \in JobResults : ProcessJobSubmitLost(w, result)
    \/ \E w \in Workers : SubmitStatus(w)
    \/ \E w \in Workers : SubmitLoad(w)
    \/ \E w \in Workers : SubmitSave(w)
    \/ \E w \in Workers : StopWorker(w)

SpecCoordinator == InitCoordinator /\ [][NextCoordinator]_vars

\* each job of the queue is handed out by at most one get_job response
JobHandedAtMostOnce == \A i \in DOMAIN handed : handed[i] <= 1

\* a handed job is in_progress or was submitted, under the worker_id that asked
HandedJobIsTaken ==
    \A i \in DOMAIN jobs_queue :
        handed[i] > 0 => /\ jobs_queue[i].status # "pending"
                         /\ jobs_queue[i].worker_id \in {worker_id[w] : w \in Workers}

\* the get_job responses that carried the place_id
Responses(place_id) ==
    {i \in DOMAIN jobs_queue : jobs_queue[i].place_id = place_id /\ handed[i] > 0}

\* C2: each job is handed out at most once, as a job that was pending and is now
\* taken by the asking worker, and no two get_job responses carry the same
\* place_id, with coordinator_json and with coordinator_lightweight
C2_Claimed ==
    /\ JobHandedAtMostOnce
    /\ HandedJobIsTaken
    /\ \A p \in PlaceIds : Cardinality(Responses(p)) <= 1

\* C6: a worker that received a job has sent no submit_result while it scrapes,
\* and exactly one from the moment process_job made its call until it polls
\* again, whether scraping returned or raised
C6_OneSubmitPerJob ==
    \A w \in Workers :
        /\ pc_worker[w] = "process" => job[w] # NoJob /\ submits[w] = 0
        /\ pc_worker[w] \in {"submit_status", "submit_load", "submit_save"} =>
               job[w] # NoJob /\ submits[w] = 1
        /\ pc_worker[w] = "poll" /\ job[w] # NoJob => submits[w] = 1

\* a worker is back at the poll after a job whose scraping raised: the file holds
\* the data of the except branch
C6_Witness ==
    \E w \in Workers :
        /\ coordinator = "json"
        /\ pc_worker[w] = "poll"
        /\ job[w] # NoJob
        /\ submits[w] = 1
        /\ worker_files[GetWorkerFile(worker_id[w])][job[w]].kind = "facility_name"

\* C10: with coordinator_json the results of distinct worker_ids never land in
\* one file
C10_Claimed == \A f \in WorkerFileNames : Cardinality(file_writers[f]) <= 1

(***************************************************************************)
(* SpecBatch: runs of SeoulMedicalBatchScraperV3.scrape_all_seoul over one *)
(* output directory.                                                       *)
(***************************************************************************)
\* seoul_administrative_dongs, in its iteration order
DongList == <<"d1", "d2">>

Dongs == {DongList[i] : i \in DOMAIN DongList}

\* SeoulMedicalBatchScraperV3.__init__: min_entries (default)
min_entries == 40

\* len(results) of the first keyword
RowCounts == {0, min_entries - 1, min_entries}

MissingProgress == [state |-> "missing", completed_dongs |-> {}]

ProgressJson(completed) == [state |-> "ok", completed_dongs |-> completed]

\* _load_progress: completed_dongs of the file, or of the default when the file is
\* missing, unreadable, or the lock is not acquired within the timeout
LoadProgressJson(file, acquired) ==
    IF acquired /\ file.state = "ok" THEN file.completed_dongs ELSE {}

\* is_dong_complete: count_csv_rows(csv_path) >= min_entries
IsDongComplete(dong) == csv_rows[dong] >= min_entries

\* _is_dong_completed: the dong is in the progress file, or its CSV has enough rows
IsDongCompleted(dong) ==
    \/ dong \in LoadProgressJson(progress_json, TRUE)
    \/ IsDongComplete(dong)

RECURSIVE PendingOf(_)
\* scrape_all_seoul: the pending list of the dongs in dongs
PendingOf(dongs) ==
    IF dongs = <<>> THEN <<>>
    ELSE (IF IsDongCompleted(Head(dongs)) THEN <<>> ELSE <<Head(dongs)>>)
            \o PendingOf(Tail(dongs))

RECURSIVE Without(_, _)
Without(dongs, dong) ==
    IF dongs = <<>> THEN <<>>
    ELSE (IF Head(dongs) = dong THEN <<>> ELSE <<Head(dongs)>>) \o Without(Tail(dongs), dong)

InitBatch ==
    /\ csv_rows = [d \in Dongs |-> 0]
    /\ progress_json = MissingProgress
    /\ pending_dongs = <<>>
    /\ skipped_dongs = {}
    /\ batch_workers = 1
    /\ runs = 0
    /\ scraping = [d \in Dongs |-> "idle"]
    /\ browsers_open = 0
    /\ leaked = 0
    /\ pc_batch = "ready"
    /\ IdlePartition
    /\ IdleScrape
    /\ IdleMerge
    /\ IdleCoordinator
    /\ IdleUpload
    /\ IdleReviews

\* scrape_all_seoul up to the pending list: every dong that _is_dong_completed
\* reports is left out; with nothing pending the run returns
StartRun(workers) ==
    /\ pc_batch = "ready"
    /\ runs < MaxRuns
    /\ runs' = runs + 1
    /\ batch_workers' = workers
    /\ pending_dongs' = PendingOf(DongList)
    /\ skipped_dongs' = {d \in Dongs : IsDongCompleted(d)}
    /\ pc_batch' = IF PendingOf(DongList) = <<>> THEN "ready" ELSE "running"
    /\ UNCHANGED <<csv_rows, progress_json, scraping, browsers_open, leaked>>
    /\ UNCHANGED notBatchVars

\* the dongs whose scrape_single_dong call is running
InFlight == {d \in Dongs : scraping[d] # "idle"}

\* the dongs whose scrape_single_dong call holds a scraper with its browser
WithBrowser == {d \in Dongs : scraping[d] = "browser"}

\* NaverMedicalScraperV6(headless): the browser starts and the scraper is built
\* ("ok"), webdriver.Chrome raises ("failed"), or the browser starts and
\* implicitly_wait raises, so that no scraper object is returned
\* ("failed_after_launch")
Launches == {"ok", "failed", "failed_after_launch"}

\* the pending dongs no call has started on, in list order
RECURSIVE NotStartedOf(_)
NotStartedOf(dongs) ==
    IF dongs = <<>> THEN <<>>
    ELSE (IF scraping[Head(dongs)] = "idle" THEN <<Head(dongs)>> ELSE <<>>)
            \o NotStartedOf(Tail(dongs))

\* scrape_single_dong begins for the next task, in the run's own process
\* (workers == 1) or in a free process of the Pool: it builds a fresh scraper
OpenBrowser(dong, launch) ==
    /\ pc_batch = "running"
    /\ Cardinality(InFlight) < batch_workers
    /\ NotStartedOf(pending_dongs) # <<>>
    /\ dong = Head(NotStartedOf(pending_dongs))
    /\ scraping' = [scraping EXCEPT ![dong] = IF launch = "ok" THEN "browser" ELSE "no_scraper"]
    /\ browsers_open' = IF launch = "failed" THEN browsers_open ELSE browsers_open + 1
    /\ leaked' = IF launch = "failed_after_launch" THEN leaked + 1 ELSE leaked
    /\ UNCHANGED <<csv_rows, progress_json, pending_dongs, skipped_dongs, batch_workers,
                   runs, pc_batch>>
    /\ UNCHANGED notBatchVars

\* what scrape_single_dong does for the first keyword: the scraper cannot be
\* built ("fatal"), scrape_location raises ("keyword_failed"), save_to_csv raises
\* after opening the file ("csv_failed"), or the results are saved ("saved")
DongOutcomes == {"fatal", "keyword_failed", "csv_failed", "saved"}

\* the first-keyword CSV after scrape_single_dong; save_to_csv is called only
\* for non-empty results
CsvAfter(old, outcome, count) ==
    IF outcome \in {"fatal", "keyword_failed"} \/ count = 0 THEN old
    ELSE IF outcome = "csv_failed" THEN 0
    ELSE count

\* the next summary the run gets: that of the call that is running (workers == 1),
\* or of any running call (Pool.imap_unordered)
NextDongs == InFlight

\* scraper.close() in the finally block: driver.quit() returns, or it raises,
\* the error is swallowed and the browser is left as it is
CloseOutcomes == {"ok", "quit_raised"}

\* a finally block that does not close the browser
BrowsersAfterCloseNever(n, closed) == n

\* the open browsers after scraper.close()
BrowsersAfterClose(n, closed) == IF closed = "ok" THEN n - 1 ELSE n

\* _save_progress: under the lock it calls _load_progress, which takes a second
\* FileLock object on the same lock file and either gets it (nested) or times out
\* and returns the default; the dong is appended and the file written.  Any
\* exception (the outer lock timing out, the write) is swallowed.
SaveProgressJson(file, dong, nested, saved) ==
    IF saved THEN ProgressJson(LoadProgressJson(file, nested) \cup {dong}) ELSE file

\* one round of the loop: the rest of scrape_single_dong(task) with its finally
\* block, then _save_progress(summary)
ScrapeDong(dong, outcome, count, nested, saved, closed) ==
    /\ pc_batch = "running"
    /\ dong \in NextDongs
    /\ outcome = "fatal" <=> scraping[dong] = "no_scraper"
    /\ IF scraping[dong] = "browser"
       THEN /\ browsers_open' = BrowsersAfterClose(browsers_open, closed)
            /\ leaked' = IF closed = "ok" THEN leaked ELSE leaked + 1
       ELSE /\ closed = "ok"
            /\ UNCHANGED <<browsers_open, leaked>>
    /\ scraping' = [scraping EXCEPT ![dong] = "idle"]
    /\ csv_rows' = [csv_rows EXCEPT ![dong] = CsvAfter(@, outcome, count)]
    /\ progress_json' = SaveProgressJson(progress_json, dong, nested, saved)
    /\ pending_dongs' = Without(pending_dongs, dong)
    /\ pc_batch' = IF Without(pending_dongs, dong) = <<>> THEN "ready" ELSE "running"
    /\ UNCHANGED <<skipped_dongs, batch_workers, runs>>
    /\ UNCHANGED notBatchVars

\* the run is interrupted (KeyboardInterrupt): a running call goes through its
\* finally block, or its Pool process is terminated before it gets there; the
\* browsers in remaining stay open
InterruptRun(remaining) ==
    /\ pc_batch = "running"
    /\ remaining \subseteq WithBrowser
    /\ pending_dongs' = <<>>
    /\ scraping' = [d \in Dongs |-> "idle"]
    /\ browsers_open' = browsers_open - (Cardinality(WithBrowser) - Cardinality(remaining))
    /\ leaked' = leaked + Cardinality(remaining)
    /\ pc_batch' = "ready"
    /\ UNCHANGED <<csv_rows, progress_json, skipped_dongs, batch_workers, runs>>
    /\ UNCHANGED notBatchVars

NextBatch ==
    \/ \E workers \in {1, 2} : StartRun(workers)
    \/ \E dong \in Dongs, launch \in Launches : OpenBrowser(dong, launch)
    \/ \E dong \in Dongs, outcome \in DongOutcomes, count \in RowCounts,
          nested \in BOOLEAN, saved \in BOOLEAN, closed \in CloseOutcomes :
            ScrapeDong(dong, outcome, count, nested, saved, closed)
    \/ \E remaining \in SUBSET Dongs : InterruptRun(remaining)

SpecBatch == InitBatch /\ [][NextBatch]_vars

\* C7: a dong that a scrape_all_seoul run left out of its pending list has a
\* first-keyword CSV with at least min_entries data rows
C7_Claimed == \A d \in skipped_dongs : csv_rows[d] >= min_entries

(***************************************************************************)
(* SpecUpload: load_all_data of upload_to_huggingface.py reads the JSON    *)
(* files of the batch scraper and removes duplicate place_ids.             *)
(***************************************************************************)
\* a missing key or a null value of a record (NaN in the DataFrame)
Null == "NaN"

\* the scraped records: place_id and two further fields
Records == [place_id : PlaceIds \cup {Null}, name : {Null, "n"}, phone : {Null, "t"}]

\* a file json.load or the metadata loop fails on
UnreadableJson == [readable |-> FALSE, data |-> <<>>]

\* the JSON files: unreadable, an empty list, or a list with one record
JsonFiles ==
    {UnreadableJson} \cup {[readable |-> TRUE, data |-> d] : d \in SeqsUpTo(Records, 1)}

\* the record with file_district, file_dong, file_keyword set from the file's path
WithFileMetadata(record, path) ==
    [place_id |-> record.place_id, name |-> record.name, phone |-> record.phone,
     file |-> path]

\* count_non_null: row.notna().sum(), the three file columns are never null
CountNonNull(row) ==
    Cardinality({c \in {"place_id", "name", "phone"} : row[c] # Null}) + 3

\* an ascending sort by _completeness
InSortOrderAscending(c1, c2) == c1 <= c2

\* df.sort_values('_completeness', ascending=False): c1 may stand before c2
InSortOrder(c1, c2) == c1 >= c2

\* the row orders sort_values may produce; rows of equal completeness in any order
SortOrders(rows) ==
    {o \in Orders(DOMAIN rows) :
        \A i, j \in DOMAIN o :
            i < j => InSortOrder(CountNonNull(rows[o[i]]), CountNonNull(rows[o[j]]))}

RECURSIVE DropDuplicates(_, _)
\* df.drop_duplicates(subset='place_id', keep='first'); nulls count as one value
DropDuplicates(rows, seen) ==
    IF rows = <<>> THEN <<>>
    ELSE IF Head(rows).place_id \in seen THEN DropDuplicates(Tail(rows), seen)
    ELSE <<Head(rows)>> \o DropDuplicates(Tail(rows), seen \cup {Head(rows).place_id})

InitUpload ==
    /\ json_files \in SeqsUpTo(JsonFiles, MaxJsonFiles)
    /\ file_pos = 1
    /\ all_data = <<>>
    /\ df = <<>>
    /\ pc_upload = "reading"
    /\ IdlePartition
    /\ IdleScrape
    /\ IdleMerge
    /\ IdleCoordinator
    /\ IdleBatch
    /\ IdleReviews

\* raise ValueError("No JSON files found")
RaiseNoJsonFiles ==
    /\ pc_upload = "reading"
    /\ json_files = <<>>
    /\ pc_upload' = "raised"
    /\ UNCHANGED <<json_files, file_pos, all_data, df>>
    /\ UNCHANGED notUploadVars

\* one round of the loop over json_files; a file that cannot be read is skipped
ReadJsonFile ==
    /\ pc_upload = "reading"
    /\ file_pos <= Len(json_files)
    /\ LET f == json_files[file_pos]
       IN  all_data' = IF f.readable
                       THEN all_data \o [i \in DOMAIN f.data |->
                                            WithFileMetadata(f.data[i], file_pos)]
                       ELSE all_data
    /\ file_pos' = file_pos + 1
    /\ UNCHANGED <<json_files, df, pc_upload>>
    /\ UNCHANGED notUploadVars

\* raise ValueError("No data found in JSON files")
RaiseNoData ==
    /\ pc_upload = "reading"
    /\ json_files # <<>>
    /\ file_pos > Len(json_files)
    /\ all_data = <<>>
    /\ pc_upload' = "raised"
    /\ UNCHANGED <<json_files, file_pos, all_data, df>>
    /\ UNCHANGED notUploadVars

\* the DataFrame is sorted by completeness, duplicates dropped, and returned
RemoveDuplicates ==
    /\ pc_upload = "reading"
    /\ file_pos > Len(json_files)
    /\ all_data # <<>>
    /\ \E o \in SortOrders(all_data) :
          df' = DropDuplicates([i \in DOMAIN o |-> all_data[o[i]]], {})
    /\ pc_upload' = "returned"
    /\ UNCHANGED <<json_files, file_pos, all_data>>
    /\ UNCHANGED notUploadVars

NextUpload ==
    \/ RaiseNoJsonFiles
    \/ ReadJsonFile
    \/ RaiseNoData
    \/ RemoveDuplicates

SpecUpload == InitUpload /\ [][NextUpload]_vars

\* the rows of a table with the place_id
RowsOf(rows, p) == {i \in DOMAIN rows : rows[i].place_id = p}

\* C8: in the table load_all_data returns, every place_id of the records read
\* has exactly one row, that row is one of the records read, and no record read
\* with the same place_id has more non-null fields
C8_OncePerPlaceIdMostComplete ==
    pc_upload = "returned" =>
        \A p \in PlaceIds :
            RowsOf(all_data, p) # {} =>
                /\ Cardinality(RowsOf(df, p)) = 1
                /\ \A i \in RowsOf(df, p) :
                      /\ \E j \in RowsOf(all_data, p) : df[i] = all_data[j]
                      /\ \A j \in RowsOf(all_data, p) :
                            CountNonNull(df[i]) >= CountNonNull(all_data[j])

\* load_all_data returned after reading a place_id twice, the record read first
\* with fewer non-null fields than the one read later
C8_Witness ==
    /\ pc_upload = "returned"
    /\ \E p \in PlaceIds : \E i, j \in RowsOf(all_data, p) :
          /\ i < j
          /\ CountNonNull(all_data[i]) < CountNonNull(all_data[j])
          /\ \E k \in DOMAIN df : df[k] = all_data[j]

(***************************************************************************)
(* SpecReviews: one call of                                                *)
(* NaverMapsReviewScraper.scrape_reviews_for_facility, step by step.       *)
(***************************************************************************)
PyNone == "None"

NoHtml == [kind |-> "none", items |-> <<>>]

\* a review item of the page: one that parse_single_review parses, one it fails on
ReviewItems == {"review", "malformed"}

\* extract_review_list_html: the outerHTML of the review list
Html(items) == [kind |-> "html", items |-> items]

RECURSIVE ParseItems(_, _)
\* parse_review_list: each item parsed with its review_index, an item whose
\* parsing raises is left out
ParseItems(items, idx) ==
    IF idx > Len(items) THEN <<>>
    ELSE (IF items[idx] = "malformed" THEN <<>>
          ELSE <<[review_text |-> items[idx], review_index |-> idx]>>)
            \o ParseItems(items, idx + 1)

ParseReviewList(html) == ParseItems(html.items, 1)

\* str(e) of the exception a step raises
ErrorTexts == {"", "Message: no such element"}

\* how one step of the call ends: it succeeds, it reports failure (False, None,
\* TimeoutException of the page wait), it raises another Exception, or a
\* KeyboardInterrupt arrives while it runs
StepOutcomes == {"ok", "failed", "exception", "interrupt"}

\* the scrape_error of a step that reports failure
FailureMessage(step) ==
    CASE step = "navigate" -> "Could not navigate to place"
      [] step = "page_load" -> "Page load timeout"
      [] step = "review_tab" -> "Could not click review tab"
      [] step = "extract" -> "Could not extract review HTML"

\* the steps that report failure by their return value
FailingSteps == {"navigate", "page_load", "review_tab", "extract"}

\* the result dictionary as the call starts
InitialResult ==
    [has_reviews |-> FALSE, review_count |-> 0, reviews |-> <<>>,
     review_html |-> NoHtml, scrape_error |-> PyNone]

\* an except branch that returns the result as it is
WithErrorUnset(res, text) == res

\* result['scrape_error'] = ...
WithError(res, text) == [res EXCEPT !.scrape_error = text]

InitReviews ==
    /\ review_page \in SeqsUpTo(ReviewItems, MaxReviews)
    /\ review_data = InitialResult
    /\ failure = "none"
    /\ pc_reviews = "navigate"
    /\ IdlePartition
    /\ IdleScrape
    /\ IdleMerge
    /\ IdleCoordinator
    /\ IdleBatch
    /\ IdleUpload

\* the ways a step ends other than by success
StepEndsBadly(step, outcome, text) ==
    /\ outcome # "ok"
    /\ outcome = "failed" => step \in FailingSteps
    /\ failure' = outcome
    /\ CASE outcome = "failed" ->
              /\ review_data' = WithError(review_data, FailureMessage(step))
              /\ pc_reviews' = "returned"
         [] outcome = "exception" ->
              /\ review_data' = WithError(review_data, text)
              /\ pc_reviews' = "returned"
         [] outcome = "interrupt" ->
              /\ UNCHANGED review_data
              /\ pc_reviews' = "raised"

\* a step that leaves the result as it is: on success the call moves on
PlainStep(step, next, outcome, text) ==
    /\ \/ /\ outcome = "ok"
          /\ pc_reviews' = next
          /\ UNCHANGED <<review_data, failure>>
       \/ StepEndsBadly(step, outcome, text)
    /\ UNCHANGED review_page
    /\ UNCHANGED notReviewsVars

NavigateToPlaceDirect(outcome, text) ==
    /\ pc_reviews = "navigate"
    /\ PlainStep("navigate", "page_load", outcome, text)

\* self.wait.until(presence of div.place_section)
WaitForPage(outcome, text) ==
    /\ pc_reviews = "page_load"
    /\ PlainStep("page_load", "review_tab", outcome, text)

ClickReviewTab(outcome, text) ==
    /\ pc_reviews = "review_tab"
    /\ PlainStep("review_tab", "expand", outcome, text)

ClickExpandAllReviews(outcome, text) ==
    /\ pc_reviews = "expand"
    /\ PlainStep("expand", "extract", outcome, text)

\* extract_review_list_html, result['review_html'] = review_html
ExtractReviewListHtml(outcome, text) ==
    /\ pc_reviews = "extract"
    /\ \/ /\ outcome = "ok"
          /\ review_data' = [review_data EXCEPT !.review_html = Html(review_page)]
          /\ pc_reviews' = "parse"
          /\ UNCHANGED failure
       \/ StepEndsBadly("extract", outcome, text)
    /\ UNCHANGED review_page
    /\ UNCHANGED notReviewsVars

\* parse_review_list and the return of the result
ParseReviews(outcome, text) ==
    /\ pc_reviews = "parse"
    /\ \/ /\ outcome = "ok"
          /\ LET reviews == ParseReviewList(review_data.review_html)
             IN  review_data' = IF reviews # <<>>
                                THEN [review_data EXCEPT !.has_reviews = TRUE,
                                                         !.review_count = Len(reviews),
                                                         !.reviews = reviews]
                                ELSE review_data
          /\ pc_reviews' = "returned"
          /\ UNCHANGED failure
       \/ StepEndsBadly("parse", outcome, text)
    /\ UNCHANGED review_page
    /\ UNCHANGED notReviewsVars

NextReviews ==
    \E outcome \in StepOutcomes, text \in ErrorTexts :
        \/ NavigateToPlaceDirect(outcome, text)
        \/ WaitForPage(outcome, text)
        \/ ClickReviewTab(outcome, text)
        \/ ClickExpandAllReviews(outcome, text)
        \/ ExtractReviewListHtml(outcome, text)
        \/ ParseReviews(outcome, text)

SpecReviews == InitReviews /\ [][NextReviews]_vars

\* the result reports an error and no reviews
ErrorResult(res) ==
    /\ res.scrape_error # PyNone
    /\ res.has_reviews = FALSE
    /\ res.review_count = 0
    /\ res.reviews = <<>>

\* C11 as claimed: scrape_reviews_for_facility never raises, and whenever a step
\* failed or raised, the dictionary returned has scrape_error set, has_reviews
\* False, review_count 0 and no reviews
C11_Claimed ==
    /\ pc_reviews # "raised"
    /\ pc_reviews = "returned" /\ failure # "none" => ErrorResult(review_data)

\* C11 amended: the call raises only when a KeyboardInterrupt (not an Exception)
\* arrives; when a step reports failure or raises an Exception the call returns
\* the dictionary with scrape_error set, has_reviews False, review_count 0 and no
\* reviews; a call without failure returns no error and review_count reviews
C11_RaisesOnlyOnInterrupt ==
    /\ pc_reviews = "raised" <=> failure = "interrupt"
    /\ pc_reviews = "returned" /\ failure # "none" => ErrorResult(review_data)
    /\ pc_reviews = "returned" /\ failure = "none" =>
          /\ review_data.scrape_error = PyNone
          /\ review_data.review_count = Len(review_data.reviews)
          /\ review_data.has_reviews <=> review_data.reviews # <<>>

\* parse_review_list raised after the review HTML was stored in the result
C11_Witness ==
    /\ pc_reviews = "returned"
    /\ failure = "exception"
    /\ review_data.review_html.kind = "html"
    /\ review_data.review_html.items # <<>>

\* C12: a ReviewScrapingOrchestrator built with partition_y < 1, partition_x < 1
\* or partition_x > partition_y ends in ValueError with no checkpoint manager
\* created and no checkpoint loaded or saved; with 1 <= partition_x <= partition_y
\* the constructor raises no ValueError
C12_InvalidPartitionRejected ==
    scraper_kind = "review" =>
        LET partition_x == partition[1]
            partition_y == partition[2]
        IN  /\ (partition_y < 1 \/ partition_x < 1 \/ partition_x > partition_y) =>
                  /\ pc_scrape \in {"new", "value_error"}
                  /\ progress_data = EmptyDict
                  /\ loaded = EmptyDict
                  /\ last_save = "none"
            /\ (1 <= partition_x /\ partition_x <= partition_y) =>
                  pc_scrape # "value_error"

\* the constructor rejected partition 3 of 2 while a checkpoint file with entries
\* was on disk
C12_Witness ==
    /\ pc_scrape = "value_error"
    /\ partition = <<3, 2>>
    /\ checkpoint_file.state = "json"
    /\ Keys(checkpoint_file.data) # {}

WorkerStep(w) ==
    \/ \E i \in DOMAIN jobs_queue : GetJob(w, i)
    \/ GetJobNone(w)
    \/ \E result \in JobResults : ProcessJob(w, result)
    \/ SubmitStatus(w)
    \/ SubmitLoad(w)
    \/ SubmitSave(w)

NextReachable == \E w \in Workers : WorkerStep(w)

\* the coordinator stays reachable, no worker crashes or is stopped, and every
\* worker process and handler thread that can take a step eventually takes one
SpecCoordinatorFair ==
    /\ InitCoordinator
    /\ [][NextReachable]_vars
    /\ \A w \in Workers : WF_vars(WorkerStep(w))

AllJobsDone == \A i \in DOMAIN jobs_queue : jobs_queue[i].status \in {"completed", "failed"}

AllWorkersStopped == \A w \in Workers : pc_worker[w] = "stopped"

\* C14 as claimed: with a reachable coordinator and no crash, under fair
\* scheduling every job eventually is completed or failed and stays so, and every
\* worker eventually leaves its run loop, having seen 3 consecutive polls without a job
C14_Claimed ==
    /\ <>[]AllJobsDone
    /\ <>AllWorkersStopped
    /\ [](\A w \in Workers :
            pc_worker[w] = "stopped" => consecutive_failures[w] = max_consecutive_failures)

\* a poll that yields no job although the coordinator assigned none: the request
\* fails, times out or is answered with another status than 200, and
\* ParallelWorker.get_job returns None; net_faults counts them up to MaxNetFaults
GetJobFails(w) ==
    /\ pc_worker[w] = "poll"
    /\ running[w]
    /\ net_faults' = IF net_faults < MaxNetFaults THEN net_faults + 1 ELSE net_faults
    /\ PollsNone(w)
    /\ UNCHANGED <<coordinator, jobs_queue, worker_files, results_table, worker_id,
                   scrape_result, worker_data, running, handed, file_writers, submitted>>
    /\ UNCHANGED notCoordVars

NextUnreachable ==
    \/ NextReachable
    \/ \E w \in Workers : GetJobFails(w)
    \/ \E w \in Workers : StopWorker(w)

\* workers whose polls may fail any number of times and which may be stopped
SpecCoordinatorUnreachable == InitCoordinator /\ [][NextUnreachable]_vars

\* the worker left its run loop by the break, not because stop() was called
StoppedOnItsOwn(w) == pc_worker[w] = "stopped" /\ running[w]

GetJobRequest(id, i) ==
    /\ i \in Candidates(coordinator)
    /\ jobs_queue' = [jobs_queue EXCEPT ![i].status = "in_progress", ![i].worker_id = id]
    /\ handed' = [handed EXCEPT ![i] = @ + 1]
    /\ UNCHANGED <<coordinator, worker_files, results_table, worker_id, pc_worker, job,
                   scrape_result, worker_data, consecutive_failures, running, submits,
                   file_writers, submitted, net_faults>>
    /\ UNCHANGED notCoordVars

\* the jobs whose status /submit_result sets: the first job of the list with the
\* place_id (json), every row with the place_id (lightweight)
SubmittedJobs(kind, place_id) ==
    IF kind = "json" THEN FirstJobWith(place_id)
    ELSE {i \in DOMAIN jobs_queue : jobs_queue[i].place_id = place_id}

\* a /submit_result request of any client, with any worker_id, place_id and
\* success flag, handled to its end
SubmitResultRequest(id, place_id, result) ==
    /\ jobs_queue' = [i \in DOMAIN jobs_queue |->
                        IF i \in SubmittedJobs(coordinator, place_id)
                        THEN [jobs_queue[i] EXCEPT !.status = SubmittedStatus(Success(result))]
                        ELSE jobs_queue[i]]
    /\ IF coordinator = "json"
       THEN /\ worker_files' = [worker_files EXCEPT ![GetWorkerFile(id)][place_id] =
                                    ResultData(result)]
            /\ file_writers' = [file_writers EXCEPT ![GetWorkerFile(id)] = @ \cup {id}]
            /\ submitted' = [submitted EXCEPT ![id] = @ \cup {place_id}]
            /\ UNCHANGED results_table
       ELSE /\ results_table' = IF Success(result)
                                THEN [results_table EXCEPT ![place_id] = ResultData(result)]
                                ELSE results_table
            /\ UNCHANGED <<worker_files, file_writers, submitted>>
    /\ UNCHANGED <<coordinator, worker_id, pc_worker, job, scrape_result, worker_data,
                   consecutive_failures, running, submits, handed, net_faults>>
    /\ UNCHANGED notCoordVars

NextRequests ==
    \/ \E id \in WorkerIds, i \in DOMAIN jobs_queue : GetJobRequest(id, i)
    \/ \E id \in WorkerIds, place_id \in PlaceIds, result \in JobResults :
          SubmitResultRequest(id, place_id, result)

\* the coordinator serving any sequence of get_job and submit_result requests
SpecRequests == InitCoordinator /\ [][NextRequests]_vars

\* one step keeps every job on pending -> in_progress -> completed or failed
StatusForward ==
    \A i \in DOMAIN jobs_queue :
        /\ jobs_queue'[i].status = "pending" => jobs_queue[i].status = "pending"
        /\ jobs_queue[i].status = "pending" =>
              jobs_queue'[i].status \in {"pending", "in_progress"}
        /\ jobs_queue[i].status \in {"completed", "failed"} =>
              jobs_queue'[i].status = jobs_queue[i].status
        /\ handed'[i] # handed[i] => jobs_queue[i].status = "pending"

\* C16 as claimed: for any sequence of get_job and submit_result requests, in
\* both coordinators, no job returns to pending, a job becomes completed or
\* failed only from in_progress, a completed or failed job keeps its status, and
\* only pending jobs are handed out
C16_Claimed == [][StatusForward]_vars

\* a /submit_result handler for the worker_id is between its start and its return
InSubmit(id) ==
    \E w \in Workers :
        worker_id[w] = id /\ pc_worker[w] \in {"submit_status", "submit_load", "submit_save"}

\* C17 as claimed: with coordinator_json, once every submit_result request
\* carrying a worker_id has returned, the file of that worker_id (written for no
\* other worker_id) holds an entry for every place_id those requests submitted
C17_Claimed ==
    \A id \in WorkerIds :
        (coordinator = "json" /\ ~InSubmit(id) /\ file_writers[GetWorkerFile(id)] \subseteq {id}) =>
            \A p \in submitted[id] : worker_files[GetWorkerFile(id)][p] # NoResult

\* the facilities recorded in the checkpoint in memory that the progress file
\* does not hold
Missing ==
    {p \in Keys(progress_data) :
        checkpoint_file.state # "json" \/ checkpoint_file.data[p] = Absent}

====
